---- MODULE Spec2Model ----
(***************************************************************************)
(* A model of the PFC forecasting service (python-model/app):              *)
(*   models/garch.py        GARCHModel                                     *)
(*   models/monte_carlo.py  MonteCarloSimulator                            *)
(*   services/forecast_service.py  ForecastService                         *)
(*   main.py                the /predict handler                           *)
(*                                                                         *)
(* Numbers.  Dimensionless quantities (log returns, volatility, drift) are *)
(* fixed-point integers in units of 1e-5, so 0.02 is 2000 and 1.0 is       *)
(* 100000.  Prices are integers in price units; simulated prices are in    *)
(* 1/100 and percentiles in 1/10000 of a price unit.  The IEEE values nan, *)
(* +inf and -inf that numpy produces are kept as values of their own, with *)
(* the comparison and arithmetic rules of IEEE-754 / Python.               *)
(***************************************************************************)
EXTENDS Integers, Sequences, FiniteSets, TLC

VARIABLES
    \* ForecastService.generate_forecast
    tickers, current_prices, historical_data, pc, idx, forecasts, risk_scores,
    overall_risk,
    \* _forecast_single_ticker / _default_forecast (the frame being executed)
    loc, arg_ticker, arg_price, arg_hist, depth, result, call_entry, call_price,
    call_hist,
    \* GARCHModel.estimate_volatility called on its own
    ev_returns, ev_pc, ev_path, ev_vol,
    \* MonteCarloSimulator.calculate_risk_metrics called on its own
    rm_price, rm_pct, rm_vol, rm_pc, rm_out,
    \* two forecasts sharing one GARCHModel
    g_model, g_fitted, th_pc, th_returns, th_src, th_vol,
    \* /predict
    request, response, invoked

orchVars == <<tickers, current_prices, historical_data, pc, idx, forecasts,
              risk_scores, overall_risk>>
tickVars == <<loc, arg_ticker, arg_price, arg_hist, depth, result, call_entry,
              call_price, call_hist>>
volVars  == <<ev_returns, ev_pc, ev_path, ev_vol>>
riskVars == <<rm_price, rm_pct, rm_vol, rm_pc, rm_out>>
concVars == <<g_model, g_fitted, th_pc, th_returns, th_src, th_vol>>
predVars == <<request, response, invoked>>
vars == <<orchVars, tickVars, volVars, riskVars, concVars, predVars>>

----------------------------------------------------------------------------
(* Bounds of the model. *)

\* Longest ticker list handed to generate_forecast.
MaxTickers == 2
\* Size N of a simulation batch (num_simulations; 10000 by default).
NumSim == 2
\* Cap on the number of _default_forecast entries explored in one call.
MaxDepth == 4

----------------------------------------------------------------------------
(* Floating point values outside the finite range. *)

NaN  == 10^9
PInf == 10^9 + 1
NInf == 0 - (10^9 + 1)
\* Python's None, as an entry of a history list or as a ticker symbol.
NoneVal == 10^9 + 2
NoneSym == "None"
\* A key that a mapping does not hold.
Absent == 10^9 + 3

IsFinite(x) == x \notin {NaN, PInf, NInf}

\* IEEE comparisons: every comparison with nan is false.
Gt(a, b) == a # NaN /\ b # NaN /\ a > b
Lt(a, b) == a # NaN /\ b # NaN /\ a < b
Le(a, b) == a # NaN /\ b # NaN /\ a <= b
Ge(a, b) == a # NaN /\ b # NaN /\ a >= b

\* Python's max(a, b): b replaces a only when b > a, so max(nan, b) is nan.
PyMax(a, b) == IF Gt(b, a) THEN b ELSE a

\* np.clip(x, lo, hi) = minimum(maximum(x, lo), hi); nan goes through.
Clip(x, lo, hi) ==
    IF x = NaN THEN NaN
    ELSE IF x = NInf \/ x < lo THEN lo
    ELSE IF x = PInf \/ x > hi THEN hi
    ELSE x

\* a - b on floats.
FSub(a, b) ==
    IF a = NaN \/ b = NaN THEN NaN
    ELSE IF a = PInf THEN (IF b = PInf THEN NaN ELSE PInf)
    ELSE IF a = NInf THEN (IF b = NInf THEN NaN ELSE NInf)
    ELSE IF b = PInf THEN NInf
    ELSE IF b = NInf THEN PInf
    ELSE a - b

RECURSIVE SqrtSearch(_, _, _)
SqrtSearch(n, lo, hi) ==
    IF lo >= hi THEN lo
    ELSE LET mid == (lo + hi + 1) \div 2
         IN IF mid * mid <= n THEN SqrtSearch(n, mid, hi)
            ELSE SqrtSearch(n, lo, mid - 1)

\* np.sqrt on a non-negative value, rounded down.
ISqrt(n) == SqrtSearch(n, 0, 46340)

\* x * np.sqrt(252), np.sqrt(252) = 15.8745.
TimesSqrt252(x) == (x * 15875) \div 1000

RECURSIVE SumSeq(_)
SumSeq(s) == IF s = <<>> THEN 0 ELSE Head(s) + SumSeq(Tail(s))

----------------------------------------------------------------------------
(* Prices.  A price is base * exp(e / 1e5): a price of the input has e = 0, *)
(* a price of a synthetic history is the seed times the exponential of the  *)
(* accumulated GBM steps.                                                   *)

Price(b) == [base |-> b, e |-> 0]

\* float(p) for a price that is an input price or a multiple of zero.
ValueOf(p) == p.base

\* np.log on the bases the model uses, in units of 1e-5.
Ln(b) ==
    CASE b = 50  -> 391202
      [] b = 100 -> 460517
      [] b = 110 -> 470048

\* np.log(price): nan below zero, -inf at zero.
LogOf(p) ==
    IF p.base < 0 THEN NaN
    ELSE IF p.base = 0 THEN NInf
    ELSE Ln(p.base) + p.e

HasNone(hist) == \E i \in 1..Len(hist) : hist[i].base = NoneVal

----------------------------------------------------------------------------
(* models/garch.py *)

\* Fewer returns than this and estimate_volatility does not fit a model.
MinGarchReturns == 30

\* calculate_returns: np.diff(np.log(prices)); empty under two prices.
CalculateReturns(prices) ==
    IF Len(prices) < 2 THEN <<>>
    ELSE [i \in 1..(Len(prices) - 1) |->
             FSub(LogOf(prices[i + 1]), LogOf(prices[i]))]

AllFinite(returns) == \A i \in 1..Len(returns) : IsFinite(returns[i])

\* np.mean of finite values (rounded down).
Mean(returns) == SumSeq(returns) \div Len(returns)

\* np.std: nan for an empty array and for one holding nan or an infinity
\* (inf - inf), else the population standard deviation.
Std(returns) ==
    IF Len(returns) = 0 \/ ~AllFinite(returns) THEN NaN
    ELSE LET m == Mean(returns)
             sq == [i \in 1..Len(returns) |-> (returns[i] - m) * (returns[i] - m)]
         IN ISqrt(SumSeq(sq) \div Len(returns))

\* np.std(returns) * np.sqrt(252)
SimpleVol(returns) ==
    LET sd == Std(returns) IN IF sd = NaN THEN NaN ELSE TimesSqrt252(sd)

\* What arch_model(...).fit(...).forecast(horizon=1) can do: raise, or give
\* a one-step variance forecast (of the returns in percent; units 1e-6).
FitRaises == [ok |-> FALSE, variance |-> 0]
\* The forecasts tried where estimate_volatility is called on its own, and
\* those tried inside a ticker's pipeline.
FitVariances == {1, 40000, 250000, 10^8}
PipelineVariances == {40000, 2500000}
FitGives(v) == [ok |-> TRUE, variance |-> v]

\* arch refuses data holding nan or inf (ValueError); on finite data the
\* fit either raises or forecasts a variance.
FitOutcomes(returns, variances) ==
    IF AllFinite(returns)
    THEN {FitRaises} \cup {FitGives(v) : v \in variances}
    ELSE {FitRaises}

\* The primary path's tail: sqrt of the variance, back to decimal,
\* annualized, clipped to [0.02, 1.0].
GarchVolatility(fit) ==
    Clip(TimesSqrt252(ISqrt(fit.variance)), 2000, 100000)

\* estimate_volatility(returns) with the library's outcome `fit`.
EstimateVolatility(returns, fit) ==
    IF Len(returns) < MinGarchReturns
    THEN [path |-> "short", vol |-> PyMax(SimpleVol(returns), 10000)]
    ELSE IF fit.ok
    THEN [path |-> "garch", vol |-> GarchVolatility(fit)]
    ELSE [path |-> "fallback", vol |-> PyMax(SimpleVol(returns), 15000)]

RECURSIVE ExpTerms(_, _, _)
ExpTerms(x, term, k) ==
    IF k > 8 THEN 0
    ELSE term + ExpTerms(x, (term * x) \div (1000 * k), k + 1)

\* np.exp(x) for x in [-1, 0], x and the result in units of 1e-3.
ExpMilli(x) == ExpTerms(x, 1000, 1)

\* np.exp(np.linspace(-1, 0, n)), before normalisation.
DriftWeights(n) ==
    [i \in 1..n |-> ExpMilli((0 - 1000) + (1000 * (i - 1)) \div (n - 1))]

\* The mean estimate_drift takes: exponentially weighted above 5 returns.
DriftMean(returns) ==
    IF \E i \in 1..Len(returns) : returns[i] = NaN THEN NaN
    ELSE IF (\E i \in 1..Len(returns) : returns[i] = PInf)
            /\ (\E i \in 1..Len(returns) : returns[i] = NInf) THEN NaN
    ELSE IF \E i \in 1..Len(returns) : returns[i] = PInf THEN PInf
    ELSE IF \E i \in 1..Len(returns) : returns[i] = NInf THEN NInf
    ELSE IF Len(returns) > 5
    THEN LET w == DriftWeights(Len(returns))
             ws == [i \in 1..Len(returns) |-> w[i] * returns[i]]
         IN SumSeq(ws) \div SumSeq(w)
    ELSE Mean(returns)

\* estimate_drift(returns): annualized and clipped to [-0.50, 1.0].
EstimateDrift(returns) ==
    IF Len(returns) = 0 THEN 0
    ELSE LET m == DriftMean(returns)
         IN Clip(IF IsFinite(m) THEN m * 252 ELSE m, 0 - 50000, 100000)

----------------------------------------------------------------------------
(* models/monte_carlo.py *)

\* The growth factors exp((mu*dt - 0.5*(sigma*sqrt(dt))^2) + sigma*sqrt(dt)*Z)
\* a draw Z can give, in percent.  Z is normal, so with sigma > 0 every
\* positive factor can occur; the draws are enumerated by the factor.
Factors == {95, 103}
Growths == [1..NumSim -> Factors]

\* simulate_paths: current_price * price_changes, in 1/100 price units;
\* nan when the drift or the volatility is nan.
SimulatePaths(S0, drift, volatility, growth) ==
    [i \in 1..NumSim |->
        IF drift = NaN \/ volatility = NaN THEN NaN ELSE S0 * growth[i]]

\* np.percentile(a, q), linear interpolation between the order statistics
\* around position q/100 * (n - 1); in 1/10000 price units.
Percentile(a, q) ==
    IF \E i \in 1..Len(a) : a[i] = NaN THEN NaN
    ELSE LET sorted == SortSeq(a, <)
             pos == q * (Len(a) - 1)
             lo == (pos \div 100) + 1
             frac == pos % 100
         IN IF frac = 0 THEN sorted[lo] * 100
            ELSE sorted[lo] * (100 - frac) + sorted[lo + 1] * frac

\* calculate_percentiles
CalculatePercentiles(sims) ==
    [p5 |-> Percentile(sims, 5), p50 |-> Percentile(sims, 50),
     p95 |-> Percentile(sims, 95)]

\* (p50 - S0) / S0 > pctBound / 100, S0 # 0, by cross-multiplication.
ExpectedReturnGt(S0, p50, pctBound) ==
    /\ p50 # NaN
    /\ IF S0 > 0 THEN (p50 - S0 * 10000) * 100 > pctBound * S0 * 10000
                 ELSE (p50 - S0 * 10000) * 100 < pctBound * S0 * 10000

\* (p50 - S0) / S0 < pctBound / 100
ExpectedReturnLt(S0, p50, pctBound) ==
    /\ p50 # NaN
    /\ IF S0 > 0 THEN (p50 - S0 * 10000) * 100 < pctBound * S0 * 10000
                 ELSE (p50 - S0 * 10000) * 100 > pctBound * S0 * 10000

\* The classification with >= 0.02 in place of > 0.02.
CalculateRiskMetricsGe(S0, pct, volatility) ==
    IF pct.p50 # NaN /\ ~ExpectedReturnLt(S0, pct.p50, 2)
       /\ Lt(volatility, 5000) THEN "green"
    ELSE IF ExpectedReturnLt(S0, pct.p50, 0 - 2) \/ Gt(volatility, 10000)
    THEN "red"
    ELSE "yellow"

\* calculate_risk_metrics(...)['risk']
CalculateRiskMetrics(S0, pct, volatility) ==
    IF ExpectedReturnGt(S0, pct.p50, 2) /\ Lt(volatility, 5000) THEN "green"
    ELSE IF ExpectedReturnLt(S0, pct.p50, 0 - 2) \/ Gt(volatility, 10000)
    THEN "red"
    ELSE "yellow"

----------------------------------------------------------------------------
(* services/forecast_service.py: one ticker *)

\* Steps of a synthetic history after its seed.
Days == 60
\* np.random.uniform(0.15, 0.35), in percent.
RandomVols == {15, 35}
\* np.random.normal(0, 1) for the 60 steps: the draws of a run repeat a
\* pattern of two.
ShockPatterns == {<<1, 0 - 1>>, <<1, 1>>}

\* (drift - 0.5 * random_vol**2) * dt + random_vol * np.sqrt(dt) * shock
Change(rv, shock) ==
    ((5000 - 5 * rv * rv) \div 252) + ((rv * 62994) \div 1000) * shock

\* The sum of the first k steps.
CumChange(rv, pat, k) ==
    (k \div 2) * (Change(rv, pat[1]) + Change(rv, pat[2]))
        + (IF k % 2 = 1 THEN Change(rv, pat[1]) ELSE 0)

\* A synthetic history of the seed alone (no steps).
SyntheticHistoryShort(cp, rv, pat) == <<Price(cp)>>

\* The prices _default_forecast builds: the seed, then 60 GBM steps
\* (a multiple of 0.0 is 0.0).
SyntheticHistory(cp, rv, pat) ==
    [k \in 1..(Days + 1) |->
        [base |-> cp, e |-> IF cp = 0 THEN 0 ELSE CumChange(rv, pat, k - 1)]]

\* float(historical_prices[-1]) raises on None.
ResolveRaises(cp, hist) ==
    cp = 0 /\ Len(hist) > 0 /\ hist[Len(hist)].base = NoneVal

\* Lines 87-88: a price of 0.0 is replaced by the last historical price.
ResolvePrice(cp, hist) ==
    IF cp = 0 /\ Len(hist) > 0 THEN ValueOf(hist[Len(hist)]) ELSE cp

\* The fallback seeded at the default price whatever the resolved price.
FallbackPriceFixed(cp) == 100

\* The price handed to _default_forecast (lines 93, 97, 106).
FallbackPrice(cp) == IF cp = 0 THEN 100 ELSE cp

\* Whether the call hands over to _default_forecast; np.log raises on an
\* array holding None before the empty-returns test is reached.
FallsBack(cp, hist) ==
    \/ cp = 0
    \/ Len(hist) < 2
    \/ (~HasNone(hist) /\ Len(CalculateReturns(hist)) = 0)

\* TickerForecast(symbol=...) refuses a symbol that is no string.
SymbolValid(t) == t # NoneSym

NoForecast ==
    [symbol |-> "", currentPrice |-> 0, p5 |-> 0, p50 |-> 0, p95 |-> 0,
     volatility |-> 0, risk |-> "none"]

\* Steps 1 to 6 of _forecast_single_ticker and the response built from them.
Pipeline(ticker, cp, hist, fit, growth) ==
    LET returns == CalculateReturns(hist)
        ev == EstimateVolatility(returns, fit)
        drift == EstimateDrift(returns)
        sims == SimulatePaths(cp, drift, ev.vol, growth)
        pct == CalculatePercentiles(sims)
    IN [symbol |-> ticker, currentPrice |-> cp, p5 |-> pct.p5,
        p50 |-> pct.p50, p95 |-> pct.p95, volatility |-> ev.vol,
        risk |-> CalculateRiskMetrics(cp, pct, ev.vol)]

\* _forecast_single_ticker(arg_ticker, arg_price, arg_hist)
ForecastSingleTicker ==
    /\ loc = "fst"
    /\ LET cp == ResolvePrice(arg_price, arg_hist)
       IN \/ /\ ResolveRaises(arg_price, arg_hist)
             /\ loc' = "exc"
             /\ UNCHANGED <<arg_price, result>>
          \/ /\ ~ResolveRaises(arg_price, arg_hist)
             /\ FallsBack(cp, arg_hist)
             /\ loc' = "default"
             /\ arg_price' = FallbackPrice(cp)
             /\ UNCHANGED result
          \/ /\ ~ResolveRaises(arg_price, arg_hist)
             /\ ~FallsBack(cp, arg_hist)
             /\ HasNone(arg_hist)
             /\ loc' = "exc"
             /\ UNCHANGED <<arg_price, result>>
          \/ /\ ~ResolveRaises(arg_price, arg_hist)
             /\ ~FallsBack(cp, arg_hist)
             /\ ~HasNone(arg_hist)
             /\ \E fit \in FitOutcomes(CalculateReturns(arg_hist), PipelineVariances),
                   growth \in Growths :
                   IF SymbolValid(arg_ticker)
                   THEN /\ loc' = "ret"
                        /\ result' = Pipeline(arg_ticker, cp, arg_hist, fit, growth)
                   ELSE /\ loc' = "exc"
                        /\ UNCHANGED result
             /\ arg_price' = cp
    /\ UNCHANGED <<arg_ticker, arg_hist, depth, call_entry, call_price, call_hist>>
    /\ UNCHANGED <<orchVars, volVars, riskVars, concVars, predVars>>

\* _default_forecast(arg_ticker, arg_price)
DefaultForecast ==
    /\ loc = "default"
    /\ depth < MaxDepth
    /\ \E rv \in RandomVols, pat \in ShockPatterns :
           arg_hist' = SyntheticHistory(arg_price, rv, pat)
    /\ loc' = "fst"
    /\ depth' = depth + 1
    /\ UNCHANGED <<arg_ticker, arg_price, result, call_entry, call_price, call_hist>>
    /\ UNCHANGED <<orchVars, volVars, riskVars, concVars, predVars>>

----------------------------------------------------------------------------
(* Inputs and the resting values of the parts a specification leaves out. *)

Symbols == {"A", "B", NoneSym}
\* Prices a caller supplies.
PriceInputs == {0 - 5, 0, 50}
\* Histories a caller supplies.
HistInputs ==
    {<<>>, <<Price(100)>>, <<Price(NoneVal)>>, <<Price(100), Price(110)>>,
     <<Price(0), Price(0)>>, <<Price(100), Price(NoneVal)>>}

\* The mappings handed to generate_forecast.
OrchPrices == {Absent, 0 - 5, 50}
OrchHists ==
    {<<>>, <<Price(100), Price(110)>>, <<Price(0), Price(0)>>,
     <<Price(100), Price(NoneVal)>>}

OrchIdle ==
    /\ tickers = <<>>
    /\ current_prices = [s \in Symbols |-> Absent]
    /\ historical_data = [s \in Symbols |-> <<>>]
    /\ pc = "single"
    /\ idx = 1
    /\ forecasts = <<>>
    /\ risk_scores = <<>>
    /\ overall_risk = "none"

TickIdle ==
    /\ loc = "idle"
    /\ arg_ticker = ""
    /\ arg_price = 0
    /\ arg_hist = <<>>
    /\ depth = 0
    /\ result = NoForecast
    /\ call_entry = "none"
    /\ call_price = 0
    /\ call_hist = <<>>

VolIdle ==
    /\ ev_returns = <<>>
    /\ ev_pc = "idle"
    /\ ev_path = "none"
    /\ ev_vol = 0

RiskIdle ==
    /\ rm_price = 1
    /\ rm_pct = [p5 |-> 0, p50 |-> 0, p95 |-> 0]
    /\ rm_vol = 0
    /\ rm_pc = "idle"
    /\ rm_out = "none"

ConcIdle ==
    /\ g_model = 0
    /\ g_fitted = [of |-> 0, fit |-> FitRaises]
    /\ th_pc = [t \in 1..2 |-> "idle"]
    /\ th_returns = [t \in 1..2 |-> <<>>]
    /\ th_src = [t \in 1..2 |-> 0]
    /\ th_vol = [t \in 1..2 |-> 0]

PredIdle ==
    /\ request = [tickers |-> <<>>, currentPrices |-> <<>>, historicalData |-> <<>>]
    /\ response = "none"
    /\ invoked = FALSE

----------------------------------------------------------------------------
(* One call of _forecast_single_ticker or of _default_forecast. *)

InitTicker ==
    /\ OrchIdle /\ VolIdle /\ RiskIdle /\ ConcIdle /\ PredIdle
    /\ call_entry \in {"fst", "default"}
    /\ loc = call_entry
    /\ arg_ticker \in {"A", NoneSym}
    /\ arg_price \in PriceInputs \cup {100}
    /\ arg_hist \in (IF call_entry = "fst" THEN HistInputs ELSE {<<>>})
    /\ depth = 0
    /\ result = NoForecast
    /\ call_price = arg_price
    /\ call_hist = arg_hist

NextTicker == ForecastSingleTicker \/ DefaultForecast

SpecTicker == InitTicker /\ [][NextTicker]_vars

----------------------------------------------------------------------------
(* services/forecast_service.py: generate_forecast *)

\* dict.get(key, default)
Get(mapping, key, default) ==
    IF mapping[key] = Absent THEN default ELSE mapping[key]

\* _risk_to_score
RiskToScore(risk) ==
    CASE risk = "green" -> 1
      [] risk = "yellow" -> 2
      [] risk = "red" -> 3
      [] OTHER -> 2

\* _score_to_risk(num / den): < 1.5 green, < 2.5 yellow, else red.
ScoreToRisk(num, den) ==
    IF 2 * num < 3 * den THEN "green"
    ELSE IF 2 * num < 5 * den THEN "yellow"
    ELSE "red"

\* _score_to_risk(np.mean(risk_scores) if risk_scores else 2)
OverallRisk(scores) ==
    IF Len(scores) = 0 THEN ScoreToRisk(2, 1)
    ELSE ScoreToRisk(SumSeq(scores), Len(scores))

TickReset ==
    /\ loc' = "idle"
    /\ arg_ticker' = ""
    /\ arg_price' = 0
    /\ arg_hist' = <<>>
    /\ depth' = 0
    /\ result' = NoForecast
    /\ call_entry' = "none"
    /\ call_price' = 0
    /\ call_hist' = <<>>

otherVars == <<volVars, riskVars, concVars, predVars>>

\* Lines 41-48: the next ticker's call of _forecast_single_ticker.
StartTicker ==
    /\ pc = "loop"
    /\ idx <= Len(tickers)
    /\ pc' = "try"
    /\ loc' = "fst"
    /\ arg_ticker' = tickers[idx]
    /\ arg_price' = Get(current_prices, tickers[idx], 0)
    /\ arg_hist' = historical_data[tickers[idx]]
    /\ depth' = 0
    /\ result' = NoForecast
    /\ call_entry' = "fst"
    /\ call_price' = arg_price'
    /\ call_hist' = arg_hist'
    /\ UNCHANGED <<tickers, current_prices, historical_data, idx, forecasts,
                   risk_scores, overall_risk, otherVars>>

\* Lines 49-50: the call returned inside the try.
TryReturn ==
    /\ pc = "try"
    /\ loc = "ret"
    /\ forecasts' = Append(forecasts, result)
    /\ risk_scores' = Append(risk_scores, RiskToScore(result.risk))
    /\ idx' = idx + 1
    /\ pc' = "loop"
    /\ TickReset
    /\ UNCHANGED <<tickers, current_prices, historical_data, overall_risk,
                   otherVars>>

\* Lines 51-55: the call raised; the handler calls _default_forecast.
TryExcept ==
    /\ pc = "try"
    /\ loc = "exc"
    /\ pc' = "except"
    /\ loc' = "default"
    /\ arg_price' = Get(current_prices, arg_ticker, 100)
    /\ arg_hist' = <<>>
    /\ depth' = 0
    /\ call_entry' = "default"
    /\ call_price' = arg_price'
    /\ call_hist' = <<>>
    /\ UNCHANGED <<arg_ticker, result>>
    /\ UNCHANGED <<tickers, current_prices, historical_data, idx, forecasts,
                   risk_scores, overall_risk, otherVars>>

\* Lines 55-56: the handler's forecast is appended, with score 2.
ExceptReturn ==
    /\ pc = "except"
    /\ loc = "ret"
    /\ forecasts' = Append(forecasts, result)
    /\ risk_scores' = Append(risk_scores, 2)
    /\ idx' = idx + 1
    /\ pc' = "loop"
    /\ TickReset
    /\ UNCHANGED <<tickers, current_prices, historical_data, overall_risk,
                   otherVars>>

\* Line 55 raises: nothing catches it, generate_forecast raises.
ExceptRaise ==
    /\ pc = "except"
    /\ loc = "exc"
    /\ pc' = "raised"
    /\ UNCHANGED <<tickers, current_prices, historical_data, idx, forecasts,
                   risk_scores, overall_risk, tickVars, otherVars>>

\* Lines 58-65: the loop is over.
Finish ==
    /\ pc = "loop"
    /\ idx > Len(tickers)
    /\ overall_risk' = OverallRisk(risk_scores)
    /\ pc' = "done"
    /\ UNCHANGED <<tickers, current_prices, historical_data, idx, forecasts,
                   risk_scores, tickVars, otherVars>>

TickerLists == UNION {[1..n -> Symbols] : n \in 0..MaxTickers}
InList(list) == {list[i] : i \in 1..Len(list)}

Init ==
    /\ VolIdle /\ RiskIdle /\ ConcIdle /\ PredIdle /\ TickIdle
    /\ tickers \in TickerLists
    /\ current_prices \in [Symbols -> OrchPrices]
    /\ historical_data \in [Symbols -> OrchHists]
    /\ \A s \in Symbols \ InList(tickers) :
           current_prices[s] = Absent /\ historical_data[s] = <<>>
    /\ pc = "loop"
    /\ idx = 1
    /\ forecasts = <<>>
    /\ risk_scores = <<>>
    /\ overall_risk = "none"

Next ==
    \/ StartTicker
    \/ ForecastSingleTicker
    \/ DefaultForecast
    \/ TryReturn
    \/ TryExcept
    \/ ExceptReturn
    \/ ExceptRaise
    \/ Finish

Spec == Init /\ [][Next]_vars

----------------------------------------------------------------------------
(* Claims about generate_forecast. *)

\* C1: generate_forecast returns normally, with one forecast per input
\* ticker in the input order, even when a ticker's forecast fails again
\* while the handler builds the replacement.
C1_AlwaysReturns ==
    /\ pc # "raised"
    /\ pc = "done" =>
          /\ Len(forecasts) = Len(tickers)
          /\ \A i \in 1..Len(tickers) : forecasts[i].symbol = tickers[i]

\* The scores of the risk tags of the forecasts returned.
TagScores == [i \in 1..Len(forecasts) |-> RiskToScore(forecasts[i].risk)]

\* C2: the aggregate risk is the one obtained from the risk tags of the
\* forecasts returned, and the score recorded for every ticker, a replaced
\* one included, is the score of the tag of the forecast returned for it.
C2_AggregateFromTags ==
    pc = "done" =>
        /\ overall_risk = OverallRisk(TagScores)
        /\ \A i \in 1..Len(forecasts) :
               risk_scores[i] = RiskToScore(forecasts[i].risk)

\* The working price C3 states for ticker t: the supplied price if > 0,
\* else the last historical price if there is one, else 100.0.
StatedPrice(t) ==
    IF current_prices[t] # Absent /\ current_prices[t] > 0
    THEN current_prices[t]
    ELSE IF Len(historical_data[t]) > 0
    THEN ValueOf(historical_data[t][Len(historical_data[t])])
    ELSE 100

AllPositive(hist) == \A i \in 1..Len(hist) : hist[i].base \in 1..(NaN - 1)

\* C3: the price reported as currentPrice (and used as S0) for a ticker is
\* the stated working price; a supplied price that is not > 0 is never
\* reported.  (Stated for the tickers whose history holds positive prices
\* only.)
C3_WorkingPrice ==
    \A i \in 1..Len(forecasts) :
        AllPositive(historical_data[tickers[i]]) =>
            /\ forecasts[i].currentPrice = StatedPrice(tickers[i])
            /\ forecasts[i].currentPrice > 0

\* C7: every forecast returned has a risk tag in {green, yellow, red} and
\* percentiles with p5 <= p50 <= p95.  (Stated for the tickers whose
\* supplied price is absent or positive.)
C7_TagAndOrder ==
    \A i \in 1..Len(forecasts) :
        current_prices[tickers[i]] > 0 =>
            /\ forecasts[i].risk \in {"green", "yellow", "red"}
            /\ Le(forecasts[i].p5, forecasts[i].p50)
            /\ Le(forecasts[i].p50, forecasts[i].p95)

----------------------------------------------------------------------------
(* Claims about one call of _forecast_single_ticker. *)

\* The call was _forecast_single_ticker with a supplied price P > 0 and an
\* empty history, and it has returned.
EmptyHistoryReturned ==
    /\ call_entry = "fst"
    /\ call_price > 0
    /\ call_hist = <<>>
    /\ loc = "ret"

\* C4 as stated: with a supplied price P > 0 and an empty history the
\* forecast returned is the static default: p5 = 0.98 P, p50 = P,
\* p95 = 1.02 P, volatility = 0.15 and risk = yellow.
C4_StaticDefault ==
    EmptyHistoryReturned =>
        /\ result.p5 = 9800 * call_price
        /\ result.p50 = 10000 * call_price
        /\ result.p95 = 10200 * call_price
        /\ result.volatility = 15000
        /\ result.risk = "yellow"

\* C4 amended: with a supplied price P > 0 and an empty history the forecast
\* returned is the normal pipeline's result on one 61-point synthetic
\* history seeded at P: currentPrice = P, the percentiles are positive with
\* p5 <= p50 <= p95, the volatility is at least 0.02, and the risk is
\* classified from them (red whenever the volatility exceeds 0.10, green
\* only with volatility below 0.05 and p50 above 1.02 P).
C4_SyntheticForecast ==
    EmptyHistoryReturned =>
        /\ depth = 1
        /\ Len(arg_hist) = Days + 1
        /\ result.symbol = arg_ticker
        /\ result.currentPrice = call_price
        /\ 0 < result.p5 /\ result.p5 <= result.p50 /\ result.p50 <= result.p95
        /\ result.p95 < NaN
        /\ Ge(result.volatility, 2000)
        /\ result.risk \in {"green", "yellow", "red"}
        /\ (Gt(result.volatility, 10000) => result.risk = "red")
        /\ (result.risk = "green" =>
                /\ Lt(result.volatility, 5000)
                /\ result.p50 > 10200 * call_price)

\* C4 witness: such a call has returned a forecast that is not the static
\* default (red, median away from P).
C4_Witness ==
    /\ EmptyHistoryReturned
    /\ result.risk = "red"
    /\ result.p50 # 10000 * call_price

\* The number of steps a call can still take: 0 once it has returned or
\* raised; _default_forecast at depth d precedes _forecast_single_ticker at
\* depth d + 1.
StepsLeft ==
    IF loc \in {"ret", "exc"} THEN 0
    ELSE IF loc = "fst" THEN 2 * (2 - depth) + 1
    ELSE 2 * (2 - depth)

\* C10: every call of _forecast_single_ticker terminates: a call entered
\* from _default_forecast sees a history of 61 points; with a nonzero price
\* it goes on to the pipeline and never falls back again; with price 0 it
\* falls back once more, with price 100.0; so _default_forecast is entered
\* at most twice, every step lowers the number of steps left, and a call
\* that has not ended can take a step.
C10_Terminates ==
    /\ [](depth <= 2)
    /\ []((loc = "fst" /\ depth > 0) => Len(arg_hist) = Days + 1)
    /\ [][(loc = "fst" /\ depth > 0 /\ arg_price # 0)
              => loc' \in {"ret", "exc"}]_vars
    /\ [][(loc = "fst" /\ depth > 0 /\ arg_price = 0)
              => (depth = 1 /\ loc' = "default" /\ arg_price' = 100)]_vars
    /\ [](StepsLeft >= 0)
    /\ [][StepsLeft' < StepsLeft]_vars
    /\ [](loc = "default" => depth < 2)

\* C10 witness: a call that fell back twice (price 0, then 100.0) returned.
C10_Witness == loc = "ret" /\ depth = 2

----------------------------------------------------------------------------
(* GARCHModel.estimate_volatility called on its own. *)

\* Return series handed to estimate_volatility: the short ones over a few
\* values, and long ones alternating two values.
ReturnValues == {NaN, PInf, 0 - 2000, 0 - 1000, 0, 1000}
ShortSeries == UNION {[1..n -> ReturnValues] : n \in 0..2}
Alternating(n, a, b) == [i \in 1..n |-> IF i % 2 = 1 THEN a ELSE b]
LongSeries ==
    {Alternating(n, ab[1], ab[2]) :
        n \in {MinGarchReturns - 1, MinGarchReturns, Days},
        ab \in {<<0, 0>>, <<1000, 0 - 1000>>, <<5000, 0 - 5000>>, <<NaN, 0>>}}

InitVol ==
    /\ OrchIdle /\ TickIdle /\ RiskIdle /\ ConcIdle /\ PredIdle
    /\ ev_returns \in ShortSeries \cup LongSeries
    /\ ev_pc = "call"
    /\ ev_path = "none"
    /\ ev_vol = 0

\* estimate_volatility(ev_returns)
EstimateVolatilityCall ==
    /\ ev_pc = "call"
    /\ \E fit \in FitOutcomes(ev_returns, FitVariances) :
          LET ev == EstimateVolatility(ev_returns, fit)
          IN /\ ev_path' = ev.path
             /\ ev_vol' = ev.vol
    /\ ev_pc' = "done"
    /\ UNCHANGED <<ev_returns, orchVars, tickVars, riskVars, concVars, predVars>>

SpecVol == InitVol /\ [][EstimateVolatilityCall]_vars

\* C6: estimate_volatility returns a value inside the bound of the path it
\* took: at least 0.10 under 30 returns, inside [0.02, 1.0] after a fit
\* that succeeded, at least 0.15 after a fit that raised.
C6_WithinPathBound ==
    ev_pc = "done" =>
        /\ ev_path = "short" => Ge(ev_vol, 10000)
        /\ ev_path = "garch" => (Ge(ev_vol, 2000) /\ Le(ev_vol, 100000))
        /\ ev_path = "fallback" => Ge(ev_vol, 15000)

----------------------------------------------------------------------------
(* MonteCarloSimulator.calculate_risk_metrics called on its own. *)

\* Medians as a percentage of S0, and nan.
MedianPercents == {97, 98, 99, 100, 101, 102, 103}
RiskPrices == {0 - 100, 50, 100}
RiskVols == {NaN, 4999, 5000, 5001, 9999, 10000, 10001}

InitRisk ==
    /\ OrchIdle /\ TickIdle /\ VolIdle /\ ConcIdle /\ PredIdle
    /\ rm_price \in RiskPrices
    /\ \E m \in {rm_price * 100 * k : k \in MedianPercents} \cup {NaN} :
          rm_pct = [p5 |-> m, p50 |-> m, p95 |-> m]
    /\ rm_vol \in RiskVols
    /\ rm_pc = "call"
    /\ rm_out = "none"

\* calculate_risk_metrics(rm_price, rm_pct, rm_vol)
CalculateRiskMetricsCall ==
    /\ rm_pc = "call"
    /\ rm_out' = CalculateRiskMetrics(rm_price, rm_pct, rm_vol)
    /\ rm_pc' = "done"
    /\ UNCHANGED <<rm_price, rm_pct, rm_vol, orchVars, tickVars, volVars,
                   concVars, predVars>>

SpecRisk == InitRisk /\ [][CalculateRiskMetricsCall]_vars

\* expectedReturn = (p50 - S0) / S0 of the call, in percent.
ExpectedReturnPct ==
    IF rm_pct.p50 = NaN THEN NaN
    ELSE (rm_pct.p50 - rm_price * 10000) \div (rm_price * 100)

\* C5: green exactly when expectedReturn > 0.02 and volatility < 0.05;
\* otherwise red exactly when expectedReturn < -0.02 or volatility > 0.10;
\* otherwise yellow; and the boundary values are yellow unless the other
\* condition decides.
C5_Classification ==
    rm_pc = "done" =>
        LET er == ExpectedReturnPct
            green == Gt(er, 2) /\ Lt(rm_vol, 5000)
            red == ~green /\ (Lt(er, 0 - 2) \/ Gt(rm_vol, 10000))
        IN /\ rm_out \in {"green", "yellow", "red"}
           /\ (rm_out = "green") = green
           /\ (rm_out = "red") = red
           /\ (rm_out = "yellow") = (~green /\ ~red)
           /\ (er \in {2, 0 - 2} /\ ~Gt(rm_vol, 10000)) => rm_out = "yellow"
           /\ (rm_vol \in {5000, 10000} /\ ~Lt(er, 0 - 2)) => rm_out = "yellow"

\* C5 witness: a call at the boundary expectedReturn = 0.02 with a low
\* volatility was classified yellow.
C5_Witness ==
    /\ rm_pc = "done"
    /\ ExpectedReturnPct = 2
    /\ rm_vol = 4999
    /\ rm_out = "yellow"

----------------------------------------------------------------------------
(* Two forecasts running estimate_volatility on the one GARCHModel of the *)
(* service (self.garch_model), one statement at a time.                   *)

Threads == {1, 2}
ThreadSeries ==
    {Alternating(MinGarchReturns, ab[1], ab[2]) :
        ab \in {<<0, 0>>, <<1000, 0 - 1000>>, <<5000, 0 - 5000>>}}

InitConc ==
    /\ OrchIdle /\ TickIdle /\ VolIdle /\ RiskIdle /\ PredIdle
    /\ g_model = 0
    /\ g_fitted = [of |-> 0, fit |-> FitRaises]
    /\ th_pc = [t \in Threads |-> "start"]
    /\ th_returns \in [Threads -> ThreadSeries]
    /\ th_src = [t \in Threads |-> 0]
    /\ th_vol = [t \in Threads |-> 0]

concRest == <<orchVars, tickVars, volVars, riskVars, predVars>>

\* Line 38: self.model = arch_model(returns_pct, ...)
BuildModel(t) ==
    /\ th_pc[t] = "start"
    /\ g_model' = t
    /\ th_pc' = [th_pc EXCEPT ![t] = "built"]
    /\ UNCHANGED <<g_fitted, th_returns, th_src, th_vol, concRest>>

\* Line 46: self.fitted_model = self.model.fit(...); a fit that raises
\* goes to lines 61-65, the sample deviation of the thread's own returns.
FitModel(t) ==
    /\ th_pc[t] = "built"
    /\ \E fit \in FitOutcomes(th_returns[g_model], PipelineVariances) :
          IF fit.ok
          THEN /\ g_fitted' = [of |-> g_model, fit |-> fit]
               /\ th_pc' = [th_pc EXCEPT ![t] = "fitted"]
               /\ UNCHANGED <<th_src, th_vol>>
          ELSE /\ th_vol' = [th_vol EXCEPT
                                ![t] = PyMax(SimpleVol(th_returns[t]), 15000)]
               /\ th_src' = [th_src EXCEPT ![t] = t]
               /\ th_pc' = [th_pc EXCEPT ![t] = "done"]
               /\ UNCHANGED g_fitted
    /\ UNCHANGED <<g_model, th_returns, concRest>>

\* Lines 49-59: forecast = self.fitted_model.forecast(horizon=1) and the
\* volatility returned.
ForecastVolatility(t) ==
    /\ th_pc[t] = "fitted"
    /\ th_vol' = [th_vol EXCEPT ![t] = GarchVolatility(g_fitted.fit)]
    /\ th_src' = [th_src EXCEPT ![t] = g_fitted.of]
    /\ th_pc' = [th_pc EXCEPT ![t] = "done"]
    /\ UNCHANGED <<g_model, g_fitted, th_returns, concRest>>

NextConc ==
    \E t \in Threads : BuildModel(t) \/ FitModel(t) \/ ForecastVolatility(t)

SpecConc == InitConc /\ [][NextConc]_vars

\* C8: in every interleaving each forecast's volatility comes from the
\* model built and fitted on its own returns.
C8_OwnModel ==
    \A t \in Threads : th_pc[t] = "done" => th_src[t] = t

----------------------------------------------------------------------------
(* main.py: POST /predict *)

RequestSymbols == {"A", "B"}
Requests ==
    [tickers : UNION {[1..n -> RequestSymbols] : n \in 1..MaxTickers},
     currentPrices : [RequestSymbols -> {Absent, 50}],
     historicalData :
         [RequestSymbols -> {<<>>, <<Price(100)>>, <<Price(100), Price(110)>>}]]

\* The parameters generate_forecast declares, none with a default.
GenerateForecastParams == {"tickers", "current_prices", "historical_data"}
\* The keyword arguments the handler passes (lines 62-65).
PredictKeywords == {"tickers", "historical_data"}

\* Python binds a call only when every parameter without a default gets an
\* argument; otherwise the call raises TypeError before the body runs.
CallBinds(params, keywords) == params \subseteq keywords

InitPredict ==
    /\ OrchIdle /\ TickIdle /\ VolIdle /\ RiskIdle /\ ConcIdle
    /\ request \in Requests
    /\ response = "none"
    /\ invoked = FALSE

\* predict(request): the call of generate_forecast inside the try, and the
\* HTTPException(500) of the handler.
Predict ==
    /\ response = "none"
    /\ IF CallBinds(GenerateForecastParams, PredictKeywords)
       THEN /\ invoked' = TRUE
            /\ response' = "200"
       ELSE /\ invoked' = FALSE
            /\ response' = "500"
    /\ UNCHANGED <<request, orchVars, tickVars, volVars, riskVars, concVars>>

SpecPredict == InitPredict /\ [][Predict]_vars

\* C9: the handler invokes the orchestrator with the request's tickers,
\* current prices and historical data, and answers with an error only when
\* the orchestrator itself fails.
C9_InvokesOrchestrator ==
    response # "none" => invoked

====
